---- MODULE Spec2Model ----
(***************************************************************************)
(* Model of setup.py: the environment bootstrap flow of main().  Text is   *)
(* a sequence of tokens.  The token alphabet is "x" (any non-whitespace    *)
(* character), " ", "\n", "\r", the token zshrc_text (the text             *)
(* 'source ~/.zshrc-base.zsh' taken as one unit) and the token             *)
(* template_text (the body of CONFIG_CONTENTS between its first and last   *)
(* newline, taken as one unit).                                            *)
(***************************************************************************)
EXTENDS Naturals, Sequences, FiniteSets

\* ---------------------------------------------------------------- bounds
MaxLen == 3        \* longest prior content of ~/.zshrc, in tokens
MaxBody == 2       \* longest response body of the download, in tokens

\* ------------------------------------------------------------- constants
NL == "\n"
CR == "\r"
SP == " "
whitespace == {SP, NL, CR}

CONFIG_FILENAME == ".zshrc-base.zsh"
zshrc_text == "source ~/.zshrc-base.zsh"
template_text == "# Andy's base zsh config ... export VISUAL=nvim"
CONFIG_CONTENTS == <<NL, template_text, NL>>
zshrc_line == <<zshrc_text>>

NoFile == <<"ENOENT">>               \* a path at which no file exists
Home == "/home/user"
asdf_path == "/home/user/.asdf"
ZshBin == "/usr/bin/zsh"
None == "None"
Unset == "<unset>"

FileAlphabet == {"x", SP, NL, CR, zshrc_text}
BodyAlphabet == {"x", NL}

RECURSIVE SeqsUpTo(_, _)
SeqsUpTo(S, n) ==
  IF n = 0 THEN {<<>>}
  ELSE LET shorter == SeqsUpTo(S, n - 1)
       IN shorter \cup {Append(s, c) : s \in {t \in shorter : Len(t) = n - 1}, c \in S}

Contents == SeqsUpTo(FileAlphabet, MaxLen)
Bodies == SeqsUpTo(BodyAlphabet, MaxBody)
Outcomes == {"ok", "nonzero", "oserror"}

\* ------------------------------------------------------- pure functions
RECURSIVE lstrip(_)
lstrip(s) ==
  IF s # <<>> /\ s[1] \in whitespace THEN lstrip(Tail(s)) ELSE s

RECURSIVE rstrip(_)
rstrip(s) ==
  IF s # <<>> /\ s[Len(s)] \in whitespace THEN rstrip(SubSeq(s, 1, Len(s) - 1)) ELSE s

strip(s) == lstrip(rstrip(s))

\* Text-mode reading with universal newlines: "\r\n" and "\r" read as "\n".
RECURSIVE universal_newlines(_)
universal_newlines(s) ==
  IF s = <<>> THEN <<>>
  ELSE IF s[1] = CR
       THEN IF Len(s) >= 2 /\ s[2] = NL
            THEN <<NL>> \o universal_newlines(SubSeq(s, 3, Len(s)))
            ELSE <<NL>> \o universal_newlines(Tail(s))
       ELSE <<s[1]>> \o universal_newlines(Tail(s))

\* Iteration of a text file: the lines, each with its terminating "\n".
RECURSIVE split_lines(_)
split_lines(s) ==
  IF s = <<>> THEN <<>>
  ELSE LET ends == {i \in 1..Len(s) : s[i] = NL}
           k == IF ends = {} THEN Len(s)
                ELSE CHOOSE i \in ends : \A j \in ends : i <= j
       IN <<SubSeq(s, 1, k)>> \o split_lines(SubSeq(s, k + 1, Len(s)))

file_lines(content) == split_lines(universal_newlines(content))

found_line_noRstrip(content) ==
  \E i \in 1..Len(file_lines(content)) : file_lines(content)[i] = zshrc_line

\* any(line.rstrip() == zshrc_line for line in f)
any_line_matches(content) ==
  \E i \in 1..Len(file_lines(content)) : rstrip(file_lines(content)[i]) = zshrc_line

appended_noSeparator == <<zshrc_text, NL>>

\* f'\n{zshrc_line}\n'
appended_text == <<NL>> \o zshrc_line \o <<NL>>

open_a_truncating(old, text) == text

\* open(path, 'a') ... f.write(text)
open_a_write(old, text) == IF old = NoFile THEN text ELSE old \o text

open_w_appending(old, text) == IF old = NoFile THEN text ELSE old \o text

\* open(path, 'w') ... f.write(text)
open_w_write(old, text) == text

should_chsh_always(sh, zp) == sh # ""

\* shell and (shell != zsh_path)
should_chsh(sh, zp) == sh # "" /\ sh # zp

\* --------------------------------------------------------------- state
VARIABLES
  pc,           \* position in main()
  cwd,          \* the process's working directory
  _stack,       \* the pushd/popd stack
  asdf_dir,     \* asdf_path.is_dir()
  zshrc,        \* content of ~/.zshrc
  antigen,      \* content of ~/.antigen.zsh
  config,       \* content of ~/.zshrc-base.zsh
  tag,          \* result of cmd_output('git describe ...')
  antigen_src,  \* result of cmd_output('curl ...')
  found_line,   \* local found_line
  zsh_path,     \* local zsh_path
  shell,        \* local shell
  exc,          \* the exception being propagated
  status,       \* exit status of the process ("running" until it ends)
  stderr,       \* diagnostic written when the process ends
  ran,          \* the commands printed after 'RUN:' and executed, in order
  rc,           \* return code of the last subprocess that ran to its end
  body,         \* raw standard output of the curl subprocess
  started,      \* the steps begun so far, in order
  cwd0,         \* cwd when the asdf step was entered
  zshrc0,       \* content of ~/.zshrc before the run
  config0       \* content of ~/.zshrc-base.zsh before the run

vars == <<pc, cwd, _stack, asdf_dir, zshrc, antigen, config, tag, antigen_src,
          found_line, zsh_path, shell, exc, status, stderr, ran, rc, body,
          started, cwd0, zshrc0, config0>>

files == <<zshrc, antigen, config>>
locals == <<tag, antigen_src, found_line, zsh_path, shell, body>>
dirs == <<cwd, _stack, asdf_dir>>
history == <<cwd0, zshrc0, config0>>

TryBlock == {"pushd", "describe", "checkout"}

Init ==
  /\ pc = "main"
  /\ cwd \in {"/work", Home}
  /\ _stack = <<>>
  /\ asdf_dir \in BOOLEAN
  /\ zshrc \in Contents \cup {NoFile}
  /\ antigen \in {NoFile, <<"x", NL>>}
  /\ config \in {NoFile, <<>>, <<"x">>, CONFIG_CONTENTS}
  /\ tag = None
  /\ antigen_src = <<>>
  /\ found_line = FALSE
  /\ zsh_path = Unset
  /\ shell = Unset
  /\ exc = None
  /\ status = "running"
  /\ stderr = ""
  /\ ran = <<>>
  /\ rc = None
  /\ body = <<>>
  /\ started = <<>>
  /\ cwd0 = cwd
  /\ zshrc0 = zshrc
  /\ config0 = config

\* ------------------------------------------------------ control transfer
raise_noFinally(e) ==
  /\ exc' = e
  /\ pc' = "exited"
  /\ status' = "1"
  /\ stderr' = "Traceback"

\* An exception leaves main(): through the finally clause when raised in the
\* try block, else as an uncaught error ending the process with status 1.
raise(e) ==
  /\ exc' = e
  /\ IF pc \in TryBlock
     THEN pc' = "popd" /\ UNCHANGED <<status, stderr>>
     ELSE pc' = "exited" /\ status' = "1" /\ stderr' = "Traceback"

\* cmd(*parts): subprocess.run(parts), return code not looked at
cmd(name, outcome, next) ==
  /\ ran' = Append(ran, name)
  /\ IF outcome = "oserror"
     THEN rc' = None /\ raise("OSError")
     ELSE /\ rc' = (IF outcome = "ok" THEN "0" ELSE "nonzero")
          /\ pc' = next
          /\ UNCHANGED <<exc, status, stderr>>

cmd_output_unchecked(name, outcome, next) ==
  /\ ran' = Append(ran, name)
  /\ IF outcome = "oserror"
     THEN rc' = None /\ raise("OSError")
     ELSE /\ rc' = (IF outcome = "ok" THEN "0" ELSE "nonzero")
          /\ pc' = next
          /\ UNCHANGED <<exc, status, stderr>>

\* cmd_output(*parts): subprocess.check_output(parts)
cmd_output(name, outcome, next) ==
  /\ ran' = Append(ran, name)
  /\ CASE outcome = "oserror" -> rc' = None /\ raise("OSError")
       [] outcome = "nonzero" -> rc' = "nonzero" /\ raise("CalledProcessError")
       [] outcome = "ok" -> rc' = "0" /\ pc' = next /\ UNCHANGED <<exc, status, stderr>>

\* ---------------------------------------------------------------- steps
\* step 1: tool installer
AptUpdate ==
  /\ pc = "main"
  /\ started' = Append(started, 1)
  /\ \E o \in Outcomes : cmd("apt update", o, "apt_install")
  /\ UNCHANGED <<dirs, files, locals, history>>

AptInstall ==
  /\ pc = "apt_install"
  /\ \E o \in Outcomes : cmd("apt install", o, "asdf_check")
  /\ UNCHANGED <<dirs, files, locals, history, started>>

\* step 2: plugin-manager provisioner
AsdfCheck ==
  /\ pc = "asdf_check"
  /\ started' = Append(started, 2)
  /\ cwd0' = cwd
  /\ pc' = IF ~asdf_dir THEN "clone" ELSE "pushd"
  /\ UNCHANGED <<dirs, files, locals, exc, status, stderr, ran, rc, zshrc0, config0>>

AsdfClone ==
  /\ pc = "clone"
  /\ \E o \in Outcomes :
       /\ cmd("git clone", o, "pushd")
       /\ asdf_dir' = (asdf_dir \/ o = "ok")
  /\ UNCHANGED <<cwd, _stack, files, locals, history, started>>

\* pushd(asdf_path), first statement of the try block
Pushd ==
  /\ pc = "pushd"
  /\ _stack' = Append(_stack, cwd)
  /\ IF asdf_dir
     THEN cwd' = asdf_path /\ pc' = "describe" /\ UNCHANGED <<exc, status, stderr>>
     ELSE raise("FileNotFoundError") /\ UNCHANGED cwd
  /\ UNCHANGED <<asdf_dir, files, locals, history, started, ran, rc>>

Describe ==
  /\ pc = "describe"
  /\ \E o \in Outcomes :
       /\ cmd_output("git describe", o, "checkout")
       /\ tag' = IF o = "ok" THEN strip(<<"x", NL>>) ELSE tag
  /\ UNCHANGED <<dirs, files, antigen_src, found_line, zsh_path, shell, body,
                 history, started>>

Checkout ==
  /\ pc = "checkout"
  /\ \E o \in Outcomes : cmd("git checkout", o, "popd")
  /\ UNCHANGED <<dirs, files, locals, history, started>>

\* finally: popd()
Popd ==
  /\ pc = "popd"
  /\ IF _stack = <<>>
     THEN raise("IndexError") /\ UNCHANGED <<cwd, _stack>>
     ELSE /\ cwd' = _stack[Len(_stack)]
          /\ _stack' = SubSeq(_stack, 1, Len(_stack) - 1)
          /\ IF exc # None
             THEN pc' = "exited" /\ status' = "1" /\ stderr' = "Traceback"
             ELSE pc' = "touch" /\ UNCHANGED <<status, stderr>>
          /\ UNCHANGED exc
  /\ UNCHANGED <<asdf_dir, files, locals, history, started, ran, rc>>

\* step 3: file-existence guarantor
Touch ==
  /\ pc = "touch"
  /\ started' = Append(started, 3)
  /\ \E o \in Outcomes :
       /\ cmd("touch", o, "mkdir")
       /\ zshrc' = IF o = "ok" /\ zshrc = NoFile THEN <<>> ELSE zshrc
  /\ UNCHANGED <<dirs, antigen, config, locals, history>>

Mkdir_skipFetch ==
  /\ pc = "mkdir"
  /\ \E o \in Outcomes : cmd("mkdir", o, "write_config")
  /\ UNCHANGED <<dirs, files, locals, history, started>>

Mkdir ==
  /\ pc = "mkdir"
  /\ \E o \in Outcomes : cmd("mkdir", o, "curl")
  /\ UNCHANGED <<dirs, files, locals, history, started>>

\* step 4: remote asset fetcher
Curl ==
  /\ pc = "curl"
  /\ started' = Append(started, 4)
  /\ \E o \in Outcomes :
       /\ cmd_output("curl", o, "write_antigen")
       /\ IF o = "ok"
          THEN \E b \in Bodies : body' = b /\ antigen_src' = strip(b)
          ELSE UNCHANGED <<body, antigen_src>>
  /\ UNCHANGED <<dirs, files, tag, found_line, zsh_path, shell, history>>

WriteAntigen ==
  /\ pc = "write_antigen"
  /\ \E io \in BOOLEAN :
       IF io
       THEN /\ antigen' = open_w_write(antigen, antigen_src)
            /\ pc' = "write_config"
            /\ UNCHANGED <<exc, status, stderr>>
       ELSE raise("OSError") /\ UNCHANGED antigen
  /\ UNCHANGED <<dirs, zshrc, config, locals, history, started, ran, rc>>

\* step 5: config writer
WriteConfig ==
  /\ pc = "write_config"
  /\ started' = Append(started, 5)
  /\ \E io \in BOOLEAN :
       IF io
       THEN /\ config' = open_w_write(config, CONFIG_CONTENTS)
            /\ pc' = "link_read"
            /\ UNCHANGED <<exc, status, stderr>>
       ELSE raise("OSError") /\ UNCHANGED config
  /\ UNCHANGED <<dirs, zshrc, antigen, locals, history, ran, rc>>

\* step 6: config linker
LinkRead ==
  /\ pc = "link_read"
  /\ started' = Append(started, 6)
  /\ IF zshrc = NoFile
     THEN raise("FileNotFoundError") /\ UNCHANGED found_line
     ELSE /\ found_line' = any_line_matches(zshrc)
          /\ pc' = IF found_line' THEN "which" ELSE "link_append"
          /\ UNCHANGED <<exc, status, stderr>>
  /\ UNCHANGED <<dirs, files, tag, antigen_src, zsh_path, shell, body, history, ran, rc>>

LinkAppend ==
  /\ pc = "link_append"
  /\ \E io \in BOOLEAN :
       IF io
       THEN /\ zshrc' = open_a_write(zshrc, appended_text)
            /\ pc' = "which"
            /\ UNCHANGED <<exc, status, stderr>>
       ELSE raise("OSError") /\ UNCHANGED zshrc
  /\ UNCHANGED <<dirs, antigen, config, locals, history, started, ran, rc>>

\* step 7: default-shell switcher
Which_noExit ==
  /\ pc = "which"
  /\ started' = Append(started, 7)
  /\ \E zp \in {None, ZshBin} :
       /\ zsh_path' = zp
       /\ pc' = IF zp # None THEN "read_shell" ELSE "print_done"
       /\ UNCHANGED <<exc, status, stderr>>
  /\ UNCHANGED <<dirs, files, tag, antigen_src, found_line, shell, body, history, ran, rc>>

Which ==
  /\ pc = "which"
  /\ started' = Append(started, 7)
  /\ \E zp \in {None, ZshBin} :
       /\ zsh_path' = zp
       /\ IF zp # None
          THEN pc' = "read_shell" /\ UNCHANGED <<exc, status, stderr>>
          ELSE /\ pc' = "exited"
               /\ exc' = "SystemExit"
               /\ status' = "1"
               /\ stderr' = "Unable to change default shell!"
  /\ UNCHANGED <<dirs, files, tag, antigen_src, found_line, shell, body, history, ran, rc>>

ReadShell ==
  /\ pc = "read_shell"
  /\ \E v \in {Unset, "", "/bin/bash", ZshBin} :
       IF v = Unset
       THEN raise("KeyError") /\ UNCHANGED shell
       ELSE /\ shell' = v
            /\ pc' = IF should_chsh(v, zsh_path) THEN "chsh" ELSE "print_done"
            /\ UNCHANGED <<exc, status, stderr>>
  /\ UNCHANGED <<dirs, files, tag, antigen_src, found_line, zsh_path, body, history,
                 started, ran, rc>>

Chsh ==
  /\ pc = "chsh"
  /\ \E o \in Outcomes : cmd("chsh", o, "print_done")
  /\ UNCHANGED <<dirs, files, locals, history, started>>

Done ==
  /\ pc = "print_done"
  /\ pc' = "exited"
  /\ status' = "0"
  /\ UNCHANGED <<dirs, files, locals, history, started, ran, rc, exc, stderr>>

Next ==
  \/ AptUpdate \/ AptInstall
  \/ AsdfCheck \/ AsdfClone \/ Pushd \/ Describe \/ Checkout \/ Popd
  \/ Touch \/ Mkdir
  \/ Curl \/ WriteAntigen
  \/ WriteConfig
  \/ LinkRead \/ LinkAppend
  \/ Which \/ ReadShell \/ Chsh
  \/ Done

Spec == Init /\ [][Next]_vars

\* ------------------------------------------------ vocabulary of the claims
InRan(name) == \E i \in 1..Len(ran) : ran[i] = name
LastRan == IF ran = <<>> THEN None ELSE ran[Len(ran)]
Terminators == {NL, CR}
CheckedCommands == {"git describe", "curl"}
AsdfStepPcs == {"clone", "pushd", "describe", "checkout", "popd"}
EntryPcs == {"main", "asdf_check", "touch", "curl", "write_config", "link_read", "which"}

\* The content of ~/.zshrc before the run, an absent file having no content.
Prior == IF zshrc0 = NoFile THEN <<>> ELSE zshrc0

\* Position i of content c starts a line that is the directive followed by
\* nothing but trailing whitespace.
DirectiveLineAt(c, i) ==
  /\ c[i] = zshrc_text
  /\ i = 1 \/ c[i - 1] \in Terminators
  /\ \E j \in i..Len(c) :
       /\ \A k \in (i + 1)..j : c[k] = SP
       /\ j = Len(c) \/ c[j + 1] \in Terminators

DirectiveLines(c) == {i \in 1..Len(c) : DirectiveLineAt(c, i)}
HasDirectiveLine(c) == c # NoFile /\ DirectiveLines(c) # {}

IsPrefix(a, b) == Len(a) <= Len(b) /\ SubSeq(b, 1, Len(a)) = a

\* The number of consecutive blank (empty or whitespace-only) lines right
\* before the last line of c.
BlankLinesBeforeLast(c) ==
  LET ls == file_lines(c)
      n == Len(ls)
      blank(i) == rstrip(ls[i]) = <<>>
  IN Cardinality({i \in 1..(n - 1) : \A k \in i..(n - 1) : blank(k)})

LinkerDone == Len(started) >= 7
Appended == LinkerDone /\ ~found_line

PcStep ==
  CASE pc \in {"main", "apt_install"} -> 1
    [] pc \in {"asdf_check"} \cup AsdfStepPcs -> 2
    [] pc \in {"touch", "mkdir"} -> 3
    [] pc \in {"curl", "write_antigen"} -> 4
    [] pc = "write_config" -> 5
    [] pc \in {"link_read", "link_append"} -> 6
    [] pc \in {"which", "read_shell", "chsh", "print_done"} -> 7
    [] OTHER -> 0

C2_ZshrcUnchanged ==
  HasDirectiveLine(zshrc0) => zshrc = zshrc0

\* A complete run over a file whose directive line has trailing whitespace.
C2_Witness ==
  /\ status = "0"
  /\ HasDirectiveLine(zshrc0)
  /\ zshrc0 # zshrc_line
  /\ Len(zshrc0) = MaxLen

\* C3 as stated: after every run that began without a directive line the
\* file has exactly one directive line, at its end, after the old content.
C3_Original ==
  (pc = "exited" /\ ~HasDirectiveLine(zshrc0)) =>
    /\ Cardinality(DirectiveLines(zshrc)) = 1
    /\ DirectiveLineAt(zshrc, Len(zshrc) - 1)
    /\ IsPrefix(Prior, zshrc)

\* C3 amended: in every run in which the config linker completes, if the
\* file had no directive line before the run then it has exactly one
\* directive line, that line is the last line of the file, and the content
\* before the run is a prefix of the new content.
C3_AppendedOnce ==
  (LinkerDone /\ ~HasDirectiveLine(zshrc0)) =>
    /\ Cardinality(DirectiveLines(zshrc)) = 1
    /\ DirectiveLineAt(zshrc, Len(zshrc) - 1)
    /\ zshrc[Len(zshrc)] = NL
    /\ IsPrefix(Prior, zshrc)
    /\ Len(zshrc) > Len(Prior)

\* The linker appended to a file that held the directive text inside a line.
C3_Witness ==
  /\ LinkerDone
  /\ ~HasDirectiveLine(zshrc0)
  /\ \E i \in 1..Len(Prior) : Prior[i] = zshrc_text

\* C4 as stated: whenever the linker appends, exactly one blank line
\* precedes the appended directive line.
C4_Original ==
  Appended => BlankLinesBeforeLast(zshrc) = 1

\* C4 amended: the linker appends exactly newline, directive, newline.  One
\* blank line precedes the directive when the prior content is empty or ends
\* with a newline right after a non-whitespace character; none when the prior
\* content ends with a non-whitespace character; two or more when the prior
\* content ends with a newline that itself follows a newline or starts the file.
C4_Separator ==
  Appended =>
    LET n == Len(Prior) IN
    /\ zshrc = Prior \o <<NL, zshrc_text, NL>>
    /\ (n = 0 \/ (n >= 2 /\ Prior[n] = NL /\ Prior[n - 1] \notin whitespace))
         => BlankLinesBeforeLast(zshrc) = 1
    /\ (n >= 1 /\ Prior[n] \notin whitespace) => BlankLinesBeforeLast(zshrc) = 0
    /\ (n >= 1 /\ Prior[n] = NL /\ (n = 1 \/ Prior[n - 1] = NL))
         => BlankLinesBeforeLast(zshrc) >= 2

\* The linker appended to a file whose last line had no terminating newline.
C4_Witness ==
  /\ Appended
  /\ Prior # <<>>
  /\ Prior[Len(Prior)] = "x"
  /\ BlankLinesBeforeLast(zshrc) = 0

\* C5 as stated: after every run the base-config file equals the template.
C5_Original ==
  pc = "exited" => config = CONFIG_CONTENTS

\* C5 amended: in every run in which the config writer completes, the
\* base-config file equals CONFIG_CONTENTS from then on, whatever it held
\* before the run.
C5_ConfigWritten ==
  Len(started) >= 6 => config = CONFIG_CONTENTS

\* The writer has replaced other text.
C5_Witness ==
  /\ Len(started) >= 6
  /\ config0 = <<"x">>
  /\ config = CONFIG_CONTENTS

\* C6 as stated: every failure, a non-zero exit status of any command
\* included, ends the process with a non-zero status before any later step.
C6_Original ==
  (rc = "nonzero" \/ exc # None) =>
    /\ pc \in {"popd", "exited"}
    /\ status # "0"

\* C6 amended: a raised error (a command that cannot be launched, a non-zero
\* exit of a command run through cmd_output, a failed chdir or file
\* operation, a missing SHELL) ends the process with status 1, through the
\* finally clause when raised in the try block, and nothing runs afterwards;
\* a non-zero exit of a command run through cmd is not looked at and the
\* flow continues with the next statement.
C6_Propagation ==
  /\ [](/\ exc # None => (pc \in {"popd", "exited"} /\ status # "0")
        /\ (exc # None /\ pc = "exited") => status = "1"
        /\ (rc = "nonzero" /\ LastRan \in CheckedCommands) => exc = "CalledProcessError")
  /\ [][/\ pc = "exited" => FALSE
        /\ (ran' # ran /\ rc' = "nonzero" /\ ran'[Len(ran')] \notin CheckedCommands)
             => (exc' = None /\ status' = "running" /\ pc' # "exited")]_vars

\* curl exited with a non-zero status and the process ended before step 5.
C6_Witness ==
  /\ pc = "exited"
  /\ status = "1"
  /\ rc = "nonzero"
  /\ LastRan = "curl"
  /\ started = <<1, 2, 3, 4>>

\* C7: chsh is invoked only in runs where the located zsh path differs
\* from the value of SHELL.
C7_ChshOnlyIfDifferent ==
  InRan("chsh") => (shell # Unset /\ zsh_path # Unset /\ shell # zsh_path)

\* chsh has been invoked.
C7_Witness ==
  /\ InRan("chsh")
  /\ shell = "/bin/bash"
  /\ zsh_path = ZshBin

\* C8: when zsh is not found the process ends at once with status 1 and the
\* message, chsh is not invoked and 'Done' is not reached; no other path
\* ends the process with a message of its own.
C8_FatalWhenNoZsh ==
  /\ zsh_path = None =>
       /\ pc = "exited"
       /\ status = "1"
       /\ stderr = "Unable to change default shell!"
       /\ ~InRan("chsh")
  /\ (exc = "SystemExit" \/ stderr \notin {"", "Traceback"}) => zsh_path = None

\* zsh was not found.
C8_Witness ==
  /\ zsh_path = None
  /\ pc = "exited"
  /\ started = <<1, 2, 3, 4, 5, 6, 7>>

\* C9: the steps begin in the order 1..7, each at most once, a step begins
\* only at the statement that follows the end of the preceding step, and
\* control never returns to an earlier step.
C9_FixedOrder ==
  /\ [](/\ Len(started) <= 7
        /\ \A i \in 1..Len(started) : started[i] = i
        /\ pc # "exited" =>
             Len(started) = (IF pc \in EntryPcs THEN PcStep - 1 ELSE PcStep))
  /\ [][/\ started' # started => (pc \in EntryPcs /\ started' = Append(started, PcStep))
        /\ pc' # "exited" => PcStep' >= PcStep]_vars

\* A complete run.
C9_Witness ==
  /\ started = <<1, 2, 3, 4, 5, 6, 7>>
  /\ status = "0"

\* C10 as stated: once the fetch has succeeded and the file has been
\* written, ~/.antigen.zsh holds the response body character for character.
C10_Original ==
  Len(started) >= 5 => antigen = body

====
